---- MODULE Spec2Model ----
(***************************************************************************)
(* Model of the draft engine of src/draft_emails.py: the tier key of       *)
(* load_template, fill_template, _extract_subject_from_body,               *)
(* _gpt_refine_body, _draft_for_company and the batch loop of main; and of  *)
(* the sign-in flow of src/outlook_web.py: outlook_auth_url and the         *)
(* concurrent handlers of outlook_callback.                                *)
(*                                                                         *)
(* A Python str is a sequence of one-character strings; None is a value    *)
(* that is no str.  A dict is a function from its keys.                    *)
(***************************************************************************)
EXTENDS Integers, Sequences, FiniteSets, TLC

VARIABLES
    env,                 \* what main finds on disk and in the environment
    templates,           \* configs/templates: sanitized tier key -> file text
    profile,             \* the CandidateProfile loaded from candidate_profile.json
    USE_GPT_REFINEMENT,  \* the module-level refinement flag
    rows,                \* the rows read_csv returned
    pc,                  \* where main is: "start", "loop", "done", "failed", "idle"
    i,                   \* number of rows the loop has finished with
    drafts,              \* main's local list of output records
    written,             \* the lists handed to write_csv, in call order
    logged,              \* the lines main printed, as events
    calls,               \* main's calls of fill_template and of the functions
                         \* that send a request to the chat-completion service
    arg,                 \* argument of the single function under test
    ret,                 \* its return value, NoCall before the call
    credentials_set,     \* outlook_web: CLIENT_ID and CLIENT_SECRET are both set
    _pending_states,     \* outlook_web: the keys of the module-level dict
    auth_replies,        \* the replies of /api/outlook/auth-url, in order
    handlers,            \* the requests to /auth/outlook/callback, each with its
                         \* arguments and the place its handler has reached
    exchanges,           \* the calls of acquire_token_by_authorization_code
    saved                \* the calls of _save_web_tokens, by handler

webVars == <<credentials_set, _pending_states, auth_replies, handlers, exchanges,
             saved>>

vars == <<env, templates, profile, USE_GPT_REFINEMENT, rows, pc, i, drafts,
          written, logged, calls, arg, ret, webVars>>

\* outlook_web as imported, no request served
WebIdle ==
    /\ credentials_set = FALSE
    /\ _pending_states = {}
    /\ auth_replies = <<>>
    /\ handlers = <<>>
    /\ exchanges = <<>>
    /\ saved = <<>>

mainVars == <<env, templates, profile, USE_GPT_REFINEMENT, rows, pc, i, drafts,
              written, logged, calls>>

-----------------------------------------------------------------------------
(* Bounds of the model *)

MaxTierLen == 3

MaxRows == 2

MaxBodyLen == 2

MaxReplyLen == 2

MaxPieces == 4

-----------------------------------------------------------------------------
(* Python values and str methods *)

None == <<"<None>">>

NoCall == <<"<NoCall>">>

NL == "\n"

Whitespace == {" ", NL, "\t"}

UpperLetters == <<"A","B","C","D","E","F","G","H","I","J","K","L","M",
                  "N","O","P","Q","R","S","T","U","V","W","X","Y","Z">>

LowerLetters == <<"a","b","c","d","e","f","g","h","i","j","k","l","m",
                  "n","o","p","q","r","s","t","u","v","w","x","y","z">>

Digits == {"0","1","2","3","4","5","6","7","8","9"}

Range(f) == {f[k] : k \in DOMAIN f}

\* bool(v) for a str or None
Truthy(v) == v # None /\ v # <<>>

\* a or b
Or(a, b) == IF Truthy(a) THEN a ELSE b

\* str.lower, one character
LowerChar(c) ==
    IF \E k \in DOMAIN UpperLetters : UpperLetters[k] = c
    THEN LowerLetters[CHOOSE k \in DOMAIN UpperLetters : UpperLetters[k] = c]
    ELSE c

lower(s) == [k \in 1..Len(s) |-> LowerChar(s[k])]

IsBlank(s) == \A k \in 1..Len(s) : s[k] \in Whitespace

\* index of the first and of the last character that is not whitespace
FirstInk(s) ==
    CHOOSE k \in 1..Len(s) :
        s[k] \notin Whitespace /\ \A j \in 1..(k - 1) : s[j] \in Whitespace

LastInk(s) ==
    LET n == Len(s)
        back == CHOOSE d \in 0..(n - 1) :
                    s[n - d] \notin Whitespace
                        /\ \A e \in 0..(d - 1) : s[n - e] \in Whitespace
    IN  n - back

rstrip(s) == IF IsBlank(s) THEN <<>> ELSE SubSeq(s, 1, LastInk(s))

strip(s) == IF IsBlank(s) THEN <<>> ELSE SubSeq(s, FirstInk(s), LastInk(s))

startswith(s, p) == Len(s) >= Len(p) /\ SubSeq(s, 1, Len(p)) = p

\* s[:n]
Prefix(s, n) == SubSeq(s, 1, IF Len(s) < n THEN Len(s) ELSE n)

\* s[n:]
DropFirst(s, n) == SubSeq(s, n + 1, Len(s))

\* all str values over an alphabet, up to a length
StringsUpTo(alphabet, n) == UNION {[1..k -> alphabet] : k \in 0..n}

-----------------------------------------------------------------------------
(* load_template *)

STANDARD == <<"s","t","a","n","d","a","r","d">>

KeyChars == Range(LowerLetters) \cup Digits \cup {"_"}

\* re.sub(r"[^a-z0-9_]", "", s)
re_sub_nonkey(s) == SelectSeq(s, LAMBDA c : c \in KeyChars)

\* the mutant: the trailing `or "standard"` is left out
template_key_no_default(tier) ==
    LET t == IF ~Truthy(tier) \/ IsBlank(tier) THEN STANDARD ELSE tier
    IN  re_sub_nonkey(lower(strip(t)))

\* the file name stem load_template looks up
template_key(tier) ==
    LET t == IF ~Truthy(tier) \/ IsBlank(tier) THEN STANDARD ELSE tier
    IN  Or(re_sub_nonkey(lower(strip(t))), STANDARD)

\* the mutant: the file is looked up under the tier as given
load_template_raw_key(tier, files) ==
    IF tier \in DOMAIN files THEN files[tier] ELSE <<>>

\* the text of the tier's file, "" when there is none
load_template(tier, files) ==
    LET key == template_key(tier)
    IN  IF key \in DOMAIN files THEN files[key] ELSE <<>>

-----------------------------------------------------------------------------
(* More str methods *)

MatchAt(s, old, k) == s[k] = old[1] /\ SubSeq(s, k, k + Len(old) - 1) = old

HasMatch(s, old) == \E k \in 1..(Len(s) - Len(old) + 1) : MatchAt(s, old, k)

FirstMatch(s, old) ==
    CHOOSE k \in 1..(Len(s) - Len(old) + 1) :
        MatchAt(s, old, k) /\ \A j \in 1..(k - 1) : ~MatchAt(s, old, j)

\* s.replace(old, new) for a non-empty old: leftmost matches, not overlapping,
\* and the text put in is not scanned again
RECURSIVE replace(_, _, _)
replace(s, old, new) ==
    IF ~HasMatch(s, old) THEN s
    ELSE LET m == FirstMatch(s, old)
         IN  SubSeq(s, 1, m - 1) \o new
                 \o replace(DropFirst(s, m + Len(old) - 1), old, new)

\* s.splitlines(): the lines without their line ends, no last empty line
RECURSIVE splitlines(_)
splitlines(s) ==
    IF s = <<>> THEN <<>>
    ELSE IF ~HasMatch(s, <<NL>>) THEN <<s>>
    ELSE LET m == FirstMatch(s, <<NL>>)
         IN  <<SubSeq(s, 1, m - 1)>> \o splitlines(DropFirst(s, m))

\* sep.join(parts)
RECURSIVE join(_, _)
join(sep, parts) ==
    IF parts = <<>> THEN <<>>
    ELSE IF Len(parts) = 1 THEN parts[1]
    ELSE parts[1] \o sep \o join(sep, Tail(parts))

endswith(s, p) == Len(s) >= Len(p) /\ SubSeq(s, Len(s) - Len(p) + 1, Len(s)) = p

\* s.lstrip()
lstrip(s) == IF IsBlank(s) THEN <<>> ELSE SubSeq(s, FirstInk(s), Len(s))

\* d.get(key), None for a key the dict lacks
get(d, key) == IF key \in DOMAIN d THEN d[key] ELSE None

\* d.get(key, default)
get_or(d, key, default) == IF key \in DOMAIN d THEN d[key] ELSE default

\* values whose Python type matters: py is "str", "int", "list" or "dict"
PyStr(s) == [py |-> "str", val |-> s]

PyInt(digits) == [py |-> "int", val |-> digits]

PyList(items) == [py |-> "list", val |-> items]

PyDict(d) == [py |-> "dict", val |-> d]

-----------------------------------------------------------------------------
(* fill_template *)

MAX_FILLED_LENGTH == 2000

Curly(name) == <<"{","{">> \o name \o <<"}","}">>

PH_company_name == Curly(<<"c","o","m","p","a","n","y","_","n","a","m","e">>)

PH_company_description ==
    Curly(<<"c","o","m","p","a","n","y","_","d","e","s","c","r","i","p","t","i","o","n">>)

PH_jobs_url == Curly(<<"j","o","b","s","_","u","r","l">>)

PH_location == Curly(<<"l","o","c","a","t","i","o","n">>)

PH_candidate_name == Curly(<<"c","a","n","d","i","d","a","t","e","_","n","a","m","e">>)

PH_candidate_headline ==
    Curly(<<"c","a","n","d","i","d","a","t","e","_","h","e","a","d","l","i","n","e">>)

PH_candidate_core_skills ==
    Curly(<<"c","a","n","d","i","d","a","t","e","_","c","o","r","e","_","s","k","i","l","l","s">>)

PH_candidate_quant_projects ==
    Curly(<<"c","a","n","d","i","d","a","t","e","_","q","u","a","n","t","_",
            "p","r","o","j","e","c","t","s">>)

PH_candidate_metrics ==
    Curly(<<"c","a","n","d","i","d","a","t","e","_","m","e","t","r","i","c","s">>)

PH_custom_reference ==
    Curly(<<"c","u","s","t","o","m","_","r","e","f","e","r","e","n","c","e">>)

COMMA_SPACE == <<",", " ">>

\* score.get("solid_reasons") if it is a list, else []
solid_reasons_of(score) ==
    IF "solid_reasons" \in DOMAIN score /\ score["solid_reasons"].py = "list"
    THEN score["solid_reasons"].val
    ELSE <<>>

\* the replacements dict, in insertion order
replacements(company, prof, score) ==
    LET solid_reasons == solid_reasons_of(score)
    IN  << <<PH_company_name, strip(Or(get(company, "company_name"), <<>>))>>,
           <<PH_company_description,
             strip(Or(Or(get(company, "short_description"),
                         get(company, "company_description")), <<>>))>>,
           <<PH_jobs_url, strip(Or(get(company, "jobs_url"), <<>>))>>,
           <<PH_location, strip(Or(get(company, "location"), <<>>))>>,
           <<PH_candidate_name, strip(Or(prof.name, <<>>))>>,
           <<PH_candidate_headline, strip(Or(prof.headline, <<>>))>>,
           <<PH_candidate_core_skills,
             IF prof.core_skills # <<>> THEN join(COMMA_SPACE, prof.core_skills)
             ELSE <<>> >>,
           <<PH_candidate_quant_projects,
             join(COMMA_SPACE, Prefix(prof.quant_projects, 2))>>,
           <<PH_candidate_metrics, join(COMMA_SPACE, Prefix(prof.metrics, 2))>>,
           <<PH_custom_reference,
             strip(IF solid_reasons # <<>> THEN solid_reasons[1] ELSE <<>>)>> >>

\* for placeholder, value in replacements.items(): out = out.replace(...)
RECURSIVE ReplaceAll(_, _)
ReplaceAll(out, pairs) ==
    IF pairs = <<>> THEN out
    ELSE ReplaceAll(replace(out, pairs[1][1], Or(pairs[1][2], <<>>)), Tail(pairs))

\* the mutant: every line is kept
KeepEveryLine(lines, prev_blank) == lines

\* the loop that drops a blank line following a blank line
RECURSIVE DropRepeatedBlank(_, _)
DropRepeatedBlank(lines, prev_blank) ==
    IF lines = <<>> THEN <<>>
    ELSE LET line == Head(lines)
             is_blank == strip(line) = <<>>
         IN  IF is_blank /\ prev_blank
             THEN DropRepeatedBlank(Tail(lines), prev_blank)
             ELSE <<line>> \o DropRepeatedBlank(Tail(lines), is_blank)

\* the mutant: the cut to MAX_FILLED_LENGTH is left out
clean_filled_uncut(out) ==
    LET split == splitlines(out)
        lines == [k \in 1..Len(split) |-> rstrip(split[k])]
    IN  strip(join(<<NL>>, DropRepeatedBlank(lines, FALSE)))

\* the mutant: a cut text ends with a marker
clean_filled_with_marker(out) ==
    LET cleaned == clean_filled_uncut(out)
    IN  IF Len(cleaned) > MAX_FILLED_LENGTH
        THEN rstrip(Prefix(cleaned, MAX_FILLED_LENGTH)) \o <<".", ".", ".">>
        ELSE cleaned

\* lines 93-106: right-trim the lines, drop repeated blank lines, trim, cut
clean_filled(out) ==
    LET split == splitlines(out)
        lines == [k \in 1..Len(split) |-> rstrip(split[k])]
        cleaned == strip(join(<<NL>>, DropRepeatedBlank(lines, FALSE)))
    IN  IF Len(cleaned) > MAX_FILLED_LENGTH
        THEN rstrip(Prefix(cleaned, MAX_FILLED_LENGTH))
        ELSE cleaned

fill_template(template, company, prof, score) ==
    clean_filled(ReplaceAll(template, replacements(company, prof, score)))

-----------------------------------------------------------------------------
(* _extract_subject_from_body *)

SUBJECT_MARKER == <<"s","u","b","j","e","c","t",":">>

\* the mutant: the marker is looked for as written, at the start of the line
IsSubjectLineExact(line) == startswith(line, SUBJECT_MARKER)

\* stripped.lower().startswith("subject:"); lower keeps the length of a str of
\* these characters, so only the first 8 characters are lowered
IsSubjectLine(line) ==
    LET stripped == strip(line)
    IN  Len(stripped) >= 8 /\ lower(SubSeq(stripped, 1, 8)) = SUBJECT_MARKER

\* the mutant: the text is trimmed when it has no subject line
_extract_subject_and_trim(text) == << <<>>, strip(text) >>

\* returns <<subject, body>>
_extract_subject_from_body(text) ==
    LET lines == splitlines(text)
        hits == {k \in 1..Len(lines) : IsSubjectLine(lines[k])}
    IN  IF hits = {} THEN << <<>>, text >>
        ELSE LET k == CHOOSE h \in hits : \A g \in hits : h <= g
             IN  << strip(DropFirst(strip(lines[k]), 8)),
                    strip(join(<<NL>>, SubSeq(lines, k + 1, Len(lines)))) >>

-----------------------------------------------------------------------------
(* _gpt_refine_body *)

\* What the chat-completion service does with one request:
\*   kind "raise": the client raises; kind "content": message.content is
\*   `content`, None when the message carries none.
Reply(kind, content) == [kind |-> kind, content |-> content]

\* the mutant: the gate lets 20% through
WithinTwentyPercent(refined, body) == 10 * Len(refined) <= 12 * Len(body)

\* len(refined) <= len(body) * 1.1: the float product n * 1.1 is never below
\* an integer r <= 11n/10 and never reaches one above it, so this is exact
WithinTenPercent(refined, body) == 10 * Len(refined) <= 11 * Len(body)

_gpt_refine_body(body, api_key_set, reply) ==
    IF ~api_key_set THEN body
    ELSE IF reply.kind = "raise" THEN body
    ELSE IF ~Truthy(reply.content) THEN body
    ELSE LET refined == strip(reply.content)
         IN  IF WithinTenPercent(refined, body)
             THEN Prefix(refined, MAX_FILLED_LENGTH)
             ELSE body

-----------------------------------------------------------------------------
(* _strip_json_block, json.loads, _draft_for_company *)

\* the backquote character, which a TLA+ string cannot hold
BACKQUOTE == "<backquote>"

FENCE == <<BACKQUOTE, BACKQUOTE, BACKQUOTE>>

JSON_TAG == <<"j","s","o","n">>

\* re.sub(r"^```(?:json)?\s*", "", content) for content that starts with ```
StripFenceHead(content) ==
    LET after == DropFirst(content, 3)
    IN  lstrip(IF startswith(after, JSON_TAG) THEN DropFirst(after, 4) ELSE after)

\* re.sub(r"\s*```\s*$", "", content): the only match is a last fence that
\* nothing but whitespace follows, with the whitespace around it
StripFenceTail(content) ==
    LET t == rstrip(content)
    IN  IF endswith(t, FENCE) THEN rstrip(SubSeq(t, 1, Len(t) - 3)) ELSE content

_strip_json_block(content) ==
    LET c == strip(content)
    IN  strip(IF startswith(c, FENCE) THEN StripFenceTail(StripFenceHead(c)) ELSE c)

\* JSON documents, written out
Quoted(s) == <<"\"">> \o s \o <<"\"">>

JsonMember(key, valueText) == Quoted(key) \o <<":">> \o valueText

K_subject == <<"s","u","b","j","e","c","t">>

K_body == <<"b","o","d","y">>

JsonDraft(subjectText, bodyText) ==
    <<"{">> \o JsonMember(K_subject, subjectText) \o <<",">>
            \o JsonMember(K_body, bodyText) \o <<"}">>

JsonBodyOnly(bodyText) == <<"{">> \o JsonMember(K_body, bodyText) \o <<"}">>

HI == <<"H","i">>

YO == <<"Y","o">>

LongText == [k \in 1..(MAX_FILLED_LENGTH + 1) |-> "x"]

\* the documents json.loads knows here: <<text, value>>; every other text is
\* malformed
JsonTable ==
    { <<JsonDraft(Quoted(HI), Quoted(YO)),
        PyDict([subject |-> PyStr(HI), body |-> PyStr(YO)])>>,
      <<JsonDraft(Quoted(<<>>), Quoted(YO)),
        PyDict([subject |-> PyStr(<<>>), body |-> PyStr(YO)])>>,
      <<JsonBodyOnly(Quoted(YO)), PyDict([body |-> PyStr(YO)])>>,
      <<JsonBodyOnly(Quoted(LongText)), PyDict([body |-> PyStr(LongText)])>>,
      <<JsonDraft(<<"7">>, Quoted(YO)),
        PyDict([subject |-> PyInt(<<"7">>), body |-> PyStr(YO)])>>,
      <<<<"[", "]">>, PyList(<<>>)>> }

JsonParses(text) == \E p \in JsonTable : p[1] = text

json_loads(text) == (CHOOSE p \in JsonTable : p[1] = text)[2]

Raised == [raised |-> TRUE, tier |-> <<>>, subject |-> <<>>, body |-> <<>>]

\* CompanyDraft(tier=..., subject=..., body=...): pydantic takes str fields only
CompanyDraft(tier, subject, body) ==
    IF subject.py = "str" /\ body.py = "str"
    THEN [raised |-> FALSE, tier |-> tier, subject |-> subject.val, body |-> body.val]
    ELSE Raised

\* _call_openai and what follows it; the prompt text has no effect on the
\* reply, which the service chooses
_draft_for_company(company_row, api_key_set, reply) ==
    IF ~api_key_set \/ reply.kind = "raise" \/ ~Truthy(reply.content) THEN Raised
    ELSE LET content == _strip_json_block(reply.content)
         IN  IF ~JsonParses(content) THEN Raised
             ELSE LET data == json_loads(content)
                      tier == Or(get_or(company_row, "tier", <<>>), <<>>)
                  IN  IF data.py # "dict" THEN Raised
                      ELSE CompanyDraft(tier,
                                        get_or(data.val, "subject", PyStr(<<>>)),
                                        get_or(data.val, "body", PyStr(<<>>)))

-----------------------------------------------------------------------------
(* main: what it reads *)

EnvKeys == {"profile_exists", "prompt_exists", "companies_exist", "api_key_set"}

\* nothing looked at yet
EnvUnread == [k \in {} |-> TRUE]

ACME == <<"A","c","m","e">>

AL == <<"A","l">>

ULTRA == <<"u","l","t","r","a">>

ULTRA_RAW == <<" ","U","l","t","r","a","!","!"," ">>

NoSkills == <<>>

ProfileChoices ==
    { [name |-> AL, headline |-> <<>>, core_skills |-> NoSkills,
       quant_projects |-> <<>>, metrics |-> <<>>],
      [name |-> <<>>, headline |-> <<>>, core_skills |-> NoSkills,
       quant_projects |-> <<>>, metrics |-> <<>>] }

\* "Subject: Hi {{company_name}}", two blank lines, a greeting and a signature
TEMPLATE_WITH_SUBJECT ==
    <<"S","u","b","j","e","c","t",":"," ","H","i"," ">> \o PH_company_name
        \o <<NL, NL, NL, "D","e","a","r"," ">> \o PH_company_name
        \o <<",", " ", NL>> \o PH_candidate_name \o <<NL>>

\* a template with no subject line
TEMPLATE_NO_SUBJECT == <<"D","e","a","r"," ">> \o PH_company_name

\* a template longer than MAX_FILLED_LENGTH
TEMPLATE_LONG ==
    <<"S","u","b","j","e","c","t",":"," ","R","e",NL>> \o LongText
        \o <<" ">> \o PH_company_name

\* "Subject: Hi", then a line "Re {{custom_reference}}"
TEMPLATE_WITH_REFERENCE ==
    <<"S","u","b","j","e","c","t",":"," ","H","i",NL,"R","e"," ">> \o PH_custom_reference

\* configs/templates: no file; standard.txt and ultra.txt; an empty
\* standard.txt and a long ultra.txt; a standard.txt with a custom reference
TemplateStores ==
    { <<>>,
      (STANDARD :> TEMPLATE_WITH_SUBJECT) @@ (ULTRA :> TEMPLATE_NO_SUBJECT),
      (STANDARD :> <<>>) @@ (ULTRA :> TEMPLATE_LONG),
      (STANDARD :> TEMPLATE_WITH_REFERENCE) }

\* csv.DictReader rows: every row of a file has the header's keys, each cell a
\* str, or None in a row shorter than the header
CompanyNameCells == {ACME, <<>>}

RowsWithTier ==
    { [company_name |-> ACME, tier |-> <<>>],
      [company_name |-> ACME, tier |-> ULTRA_RAW],
      [company_name |-> <<>>, tier |-> ULTRA_RAW],
      [company_name |-> <<>>, tier |-> None] }

RowsWithoutTier == [{"company_name"} -> CompanyNameCells]

FAST == <<"F","a","s","t">>

\* the cell write_csv makes of the list ['Fast ']: the list as str() prints it
REASONS_CELL == <<"[", "'">> \o FAST \o <<" ", "'", "]">>

\* rows of a file with a solid_reasons column: one cell with a list of one
\* reason, one empty cell
RowsWithReasons ==
    { [company_name |-> ACME, solid_reasons |-> REASONS_CELL],
      [company_name |-> ACME, solid_reasons |-> <<>>] }

SeqsUpTo(S, n) == UNION {[1..k -> S] : k \in 0..n}

CsvFiles ==
    SeqsUpTo(RowsWithTier, MaxRows) \cup SeqsUpTo(RowsWithoutTier, MaxRows)
        \cup SeqsUpTo(RowsWithReasons, MaxRows)

\* what the service may do with a generation request
GenReplies ==
    { Reply("raise", None),
      Reply("content", None),
      Reply("content", <<"o","o","p","s">>),
      Reply("content", <<"[", "]">>),
      Reply("content", JsonDraft(<<"7">>, Quoted(YO))),
      Reply("content", FENCE \o JSON_TAG \o <<NL>> \o JsonDraft(Quoted(HI), Quoted(YO))
                           \o <<NL>> \o FENCE),
      Reply("content", JsonBodyOnly(Quoted(LongText))) }

\* what the service may do with a refinement request
RefineReplies ==
    { Reply("raise", None),
      Reply("content", None),
      Reply("content", <<" ", NL>>),
      Reply("content", <<" ">> \o YO \o <<NL>>),
      Reply("content", <<"D","e","a","r"," ","A","c","m","e",","," ","h","e","l","l","o",
                         " ","t","h","e","r","e">>) }

NoReply == Reply("none", None)

-----------------------------------------------------------------------------
(* main *)

Event(ev, n) == [ev |-> ev, n |-> n]

Call(fn, n) == [fn |-> fn, row |-> n]

\* str(v) as an f-string prints it
Str(v) == IF v = None THEN <<"N","o","n","e">> ELSE v

\* line 273
resolved_tier(row) ==
    Or(strip(Or(get(row, "tier"), STANDARD)), STANDARD)

\* line 279: a cell of a csv row is never a list
main_score(row) == [solid_reasons |-> PyList(<<>>)]

\* line 283
fallback_subject(prof, row) ==
    Or(prof.name, <<"C","a","n","d","i","d","a","t","e">>)
        \o <<" ","-"," ","i","n","t","e","r","e","s","t","e","d"," ","i","n"," ">>
        \o Str(get_or(row, "company_name", <<"C","o","m","p","a","n","y">>))

\* the mutant: no subject is made up when the template has no subject line
subject_as_extracted(subject, prof, row) == subject

\* lines 282-283
subject_or_fallback(subject, prof, row) ==
    IF Truthy(subject) THEN subject ELSE fallback_subject(prof, row)

\* the mutant: the flag is not looked at
should_refine_always(flag) == TRUE

\* line 284
should_refine(flag) == flag

\* lines 282-286: the template branch after the subject extraction, which
\* gave subject_body
template_draft(subject_body, row, tier, prof, flag, api_key_set, reply) ==
    LET subject == subject_or_fallback(subject_body[1], prof, row)
        body == IF should_refine(flag)
                THEN _gpt_refine_body(subject_body[2], api_key_set, reply)
                ELSE subject_body[2]
    IN  CompanyDraft(tier, PyStr(subject), PyStr(body))

\* line 290: {**row, "subject": draft.subject, "body": draft.body}
output_record(row, draft) ==
    ("subject" :> draft.subject) @@ ("body" :> draft.body) @@ row

\* the mutant: a new record takes the place of the earlier ones
drafts_restarted(ds, row, draft) ==
    IF draft.raised THEN ds ELSE <<output_record(row, draft)>>

\* the mutant: a failed row leaves an empty record
drafts_with_placeholder(ds, row, draft) ==
    Append(ds, output_record(row, draft))

\* lines 290-293: drafts after the try statement
drafts_after_row(ds, row, draft) ==
    IF draft.raised THEN ds ELSE Append(ds, output_record(row, draft))

\* the mutant: no try statement around the row
pc_without_try(raised) == IF raised THEN "failed" ELSE "loop"

\* lines 291-293: the except clause goes on with the next row
pc_after_row(raised) == "loop"

\* the mutant: a failed row is gone through again
next_index_retrying(k, raised) == IF raised THEN k ELSE k + 1

\* lines 272 and 293: enumerate goes on to the next row, failed or not
next_index(k, raised) == k + 1

\* the part of the environment e that main gets to look at: it stops at the
\* first thing missing, and returns before the key check when there is no row
Observed(e, csv) ==
    LET looked ==
            IF ~e["profile_exists"] THEN {"profile_exists"}
            ELSE IF ~e["prompt_exists"] THEN {"profile_exists", "prompt_exists"}
            ELSE IF ~e["companies_exist"] \/ csv = <<>> THEN EnvKeys \ {"api_key_set"}
            ELSE EnvKeys
    IN  [k \in looked |-> e[k]]

\* lines 245-269: everything before the loop
Start ==
    /\ pc = "start"
    /\ \E e \in [EnvKeys -> BOOLEAN] :
        /\ env' = Observed(e, rows)
        /\ IF ~e["profile_exists"]
           THEN /\ pc' = "failed"
                /\ logged' = Append(logged, Event("FileNotFoundError: profile", 0))
           ELSE IF ~e["prompt_exists"]
           THEN /\ pc' = "failed"
                /\ logged' = Append(logged, Event("FileNotFoundError: prompt", 0))
           ELSE IF ~e["companies_exist"]
           THEN /\ pc' = "failed"
                /\ logged' = Append(logged, Event("FileNotFoundError: companies", 0))
           ELSE IF rows = <<>>
           THEN /\ pc' = "done"
                /\ logged' = Append(logged, Event("No companies to draft for.", 0))
           ELSE IF ~e["api_key_set"]
           THEN /\ pc' = "failed"
                /\ logged' = Append(logged, Event("ValueError: OPENAI_API_KEY", 0))
           ELSE /\ pc' = "loop"
                /\ logged' = logged
    /\ UNCHANGED <<templates, profile, USE_GPT_REFINEMENT, rows, i, drafts,
                   written, calls, arg, ret, webVars>>

\* lines 272-293: one pass of the loop body, for rows[i + 1]
MoreRows == pc = "loop" /\ i < Len(rows)

NoMoreRows == pc = "loop" /\ i = Len(rows)

DraftRow ==
    /\ MoreRows
    /\ LET n == i + 1
           row == rows[n]
           tier == resolved_tier(row)
           template_text == load_template(tier, templates)
           template_mode == Truthy(template_text)
           refine == template_mode /\ should_refine(USE_GPT_REFINEMENT)
           replies == IF ~template_mode THEN GenReplies
                      ELSE IF refine /\ env["api_key_set"] THEN RefineReplies
                      ELSE {NoReply}
           filled == fill_template(template_text, row, profile, main_score(row))
           subject_body == _extract_subject_from_body(filled)
       IN  \E reply \in replies :
            LET draft == IF template_mode
                         THEN template_draft(subject_body, row, tier, profile,
                                             USE_GPT_REFINEMENT, env["api_key_set"], reply)
                         ELSE _draft_for_company(row, env["api_key_set"], reply)
                mode_event == IF template_mode THEN Event("TEMPLATE MODE", n)
                              ELSE Event("No template, using GPT generation", n)
            IN  /\ calls' = IF ~template_mode
                            THEN Append(calls, Call("_call_openai", n))
                            ELSE IF refine /\ env["api_key_set"]
                            THEN calls \o <<Call("fill_template", n),
                                            Call("_gpt_refine_body", n)>>
                            ELSE Append(calls, Call("fill_template", n))
                /\ drafts' = drafts_after_row(drafts, row, draft)
                /\ logged' = logged \o <<Event("Drafting", n), mode_event>>
                                 \o IF draft.raised THEN <<Event("Failed", n)>> ELSE <<>>
                /\ pc' = pc_after_row(draft.raised)
                /\ i' = next_index(i, draft.raised)
    /\ UNCHANGED <<env, templates, profile, USE_GPT_REFINEMENT, rows, written,
                   arg, ret, webVars>>

\* lines 295-296: after the loop
Finish ==
    /\ NoMoreRows
    /\ written' = Append(written, drafts)
    /\ logged' = Append(logged, Event("Wrote", Len(drafts)))
    /\ pc' = "done"
    /\ UNCHANGED <<env, templates, profile, USE_GPT_REFINEMENT, rows, i, drafts,
                   calls, arg, ret, webVars>>

Init ==
    /\ env = EnvUnread
    /\ templates \in TemplateStores
    /\ profile \in ProfileChoices
    /\ USE_GPT_REFINEMENT \in BOOLEAN
    /\ rows \in CsvFiles
    /\ pc = "start"
    /\ i = 0
    /\ drafts = <<>>
    /\ written = <<>>
    /\ logged = <<>>
    /\ calls = <<>>
    /\ arg = None
    /\ ret = NoCall
    /\ WebIdle

Next == Start \/ DraftRow \/ Finish

Spec == Init /\ [][Next]_vars

-----------------------------------------------------------------------------
(* What the log and the output say about the rows *)

FailedRows == {n \in 1..Len(rows) : Event("Failed", n) \in Range(logged)}

TemplateRows == {n \in 1..Len(rows) : Event("TEMPLATE MODE", n) \in Range(logged)}

GenerationRows ==
    {n \in 1..Len(rows) : Event("No template, using GPT generation", n) \in Range(logged)}

SucceededRows == (1..i) \ FailedRows

\* the j-th smallest number of S
NthOf(S, j) == CHOOSE n \in S : Cardinality({m \in S : m < n}) = j - 1

\* the row the j-th draft was made for
RowOfDraft(j) == NthOf(SucceededRows, j)

\* an output record without the two fields main adds
CompanyFields(rec) == [k \in DOMAIN rec \ {"subject", "body"} |-> rec[k]]

-----------------------------------------------------------------------------
(* Claims about main *)

\* C1: the drafts handed to write_csv are exactly the rows whose drafting
\* succeeded, in input order: a failed row leaves no record, and no succeeded
\* row is missing, duplicated or reordered.
C1_DraftsAreSucceededRows ==
    /\ Len(drafts) = Cardinality(SucceededRows)
    /\ \A j \in 1..Len(drafts) : CompanyFields(drafts[j]) = rows[RowOfDraft(j)]
    /\ \A j \in 1..Len(written) : written[j] = drafts
    /\ (pc = "done" /\ rows # <<>>) => Len(written) = 1

C1_Witness ==
    /\ pc = "done"
    /\ Len(rows) = 2
    /\ FailedRows = {1}
    /\ Len(written) = 1
    /\ Len(written[1]) = 1
    /\ CompanyFields(written[1][1]) = rows[2]

BatchCompleted ==
    /\ pc = "done"
    /\ i = Len(rows)
    /\ \A n \in 1..Len(rows) : Event("Drafting", n) \in Range(logged)
    /\ written = <<drafts>>
    /\ logged[Len(logged)] = Event("Wrote", Len(drafts))

\* C2: once the loop has started, no error of a single row ends the batch:
\* main never ends with an error after its first row, in the loop one of the
\* two steps can always be taken (DraftRow and Finish ask for nothing but
\* their guards: the service always has some reply), and at the end every
\* row was gone through, the drafts were written once and their number was
\* reported.
C2_BatchAlwaysCompletes ==
    /\ pc = "failed" =>
          (i = 0 /\ \A n \in 1..Len(rows) : Event("Drafting", n) \notin Range(logged))
    /\ pc = "loop" => (MoreRows \/ NoMoreRows)
    /\ (pc = "done" /\ rows # <<>>) => BatchCompleted

C2_Witness ==
    /\ BatchCompleted
    /\ Len(rows) = 2
    /\ FailedRows = {1, 2}
    /\ written = << <<>> >>

\* C3 as claimed: every draft has a non-empty subject, in either mode.
C3_SubjectNeverEmpty ==
    \A j \in 1..Len(drafts) : drafts[j]["subject"] # <<>>

\* C3 as amended: every draft made in template mode has a non-empty subject.
C3_TemplateSubjectNeverEmpty ==
    \A j \in 1..Len(drafts) :
        RowOfDraft(j) \in TemplateRows => drafts[j]["subject"] # <<>>

\* a template without a subject line was used, for a profile without a name
C3_Witness ==
    \E j \in 1..Len(drafts) :
        /\ RowOfDraft(j) \in TemplateRows
        /\ templates[template_key(resolved_tier(rows[RowOfDraft(j)]))] = TEMPLATE_NO_SUBJECT
        /\ profile.name = <<>>
        /\ drafts[j]["subject"] = fallback_subject(profile, rows[RowOfDraft(j)])

\* C4 as claimed: every draft body is at most MAX_FILLED_LENGTH long, in
\* either mode.
C4_BodyNeverTooLong ==
    \A j \in 1..Len(drafts) : Len(drafts[j]["body"]) <= MAX_FILLED_LENGTH

\* C4 as amended: every draft body made in template mode, refined or not, is
\* at most MAX_FILLED_LENGTH long.
C4_TemplateBodyNeverTooLong ==
    \A j \in 1..Len(drafts) :
        RowOfDraft(j) \in TemplateRows => Len(drafts[j]["body"]) <= MAX_FILLED_LENGTH

\* the filled text of a template was longer than MAX_FILLED_LENGTH and was cut
C4_Witness ==
    \E j \in 1..Len(drafts) :
        /\ RowOfDraft(j) \in TemplateRows
        /\ templates[template_key(resolved_tier(rows[RowOfDraft(j)]))] = TEMPLATE_LONG
        /\ Len(drafts[j]["body"]) = MAX_FILLED_LENGTH - 12

RefineCalls == {c \in Range(calls) : c.fn = "_gpt_refine_body"}

ExtractedBody(n) ==
    _extract_subject_from_body(
        fill_template(load_template(resolved_tier(rows[n]), templates), rows[n],
                      profile, main_score(rows[n])))[2]

\* C7: a refinement request is made only for a template row and only with
\* the flag on; with the flag off the body of a template draft is the body
\* the subject extraction gave.
C7_RefineOnlyWithFlag ==
    /\ \A c \in RefineCalls : USE_GPT_REFINEMENT /\ c.row \in TemplateRows
    /\ ~USE_GPT_REFINEMENT =>
          /\ RefineCalls = {}
          /\ \A j \in 1..Len(drafts) :
                RowOfDraft(j) \in TemplateRows =>
                    drafts[j]["body"] = ExtractedBody(RowOfDraft(j))

C7_Witness ==
    /\ USE_GPT_REFINEMENT
    /\ \E j \in 1..Len(drafts) :
        /\ Call("_gpt_refine_body", RowOfDraft(j)) \in RefineCalls
        /\ drafts[j]["body"] = YO
        /\ ExtractedBody(RowOfDraft(j)) # YO

\* C8 as claimed: every output record carries the resolved tier of its row.
C8_RecordCarriesResolvedTier ==
    \A j \in 1..Len(drafts) :
        /\ "tier" \in DOMAIN drafts[j]
        /\ drafts[j]["tier"] = resolved_tier(rows[RowOfDraft(j)])

ExtractedSubject(n) ==
    _extract_subject_from_body(
        fill_template(load_template(resolved_tier(rows[n]), templates), rows[n],
                      profile, main_score(rows[n])))[1]

CANDIDATE == <<"C","a","n","d","i","d","a","t","e">>

COMPANY == <<"C","o","m","p","a","n","y">>

\* the name the subject is to show for the row's company
CompanyShown(row) ==
    IF "company_name" \in DOMAIN row /\ Truthy(row["company_name"])
    THEN row["company_name"] ELSE COMPANY

\* C15 as claimed: a template draft whose extracted subject is empty has a
\* subject that holds the candidate's name, or "Candidate" when the profile
\* has none, and the company's name, or "Company" when the row has no
\* company name (no such key, or an empty value).
C15_FallbackNamesBoth ==
    \A j \in 1..Len(drafts) :
        (RowOfDraft(j) \in TemplateRows /\ ExtractedSubject(RowOfDraft(j)) = <<>>) =>
            /\ HasMatch(drafts[j]["subject"], Or(profile.name, CANDIDATE))
            /\ HasMatch(drafts[j]["subject"], CompanyShown(rows[RowOfDraft(j)]))

\* C17 as claimed: main ends with an error only when the candidate profile is
\* missing or when there is no company file at all.
C17_OnlyProfileOrCompaniesFatal ==
    pc = "failed" =>
        \/ ~env["profile_exists"]
        \/ ("companies_exist" \in DOMAIN env /\ ~env["companies_exist"])

\* how often main made the call c
TimesCalled(c) == Cardinality({k \in DOMAIN calls : calls[k] = c})

TimesLogged(e) == Cardinality({k \in DOMAIN logged : logged[k] = e})

ServiceCalls ==
    {k \in DOMAIN calls : calls[k].fn \in {"_call_openai", "_gpt_refine_body"}}

\* C18: every row is gone through at most once, a failed row is not tried
\* again, and at most one generation request is made per row, so there are
\* never more requests than rows.
C18_EachRowAtMostOnce ==
    /\ \A n \in 1..Len(rows) :
          /\ TimesLogged(Event("Drafting", n)) <= 1
          /\ TimesLogged(Event("Failed", n)) <= 1
          /\ TimesCalled(Call("_call_openai", n)) <= 1
          /\ Cardinality({k \in ServiceCalls : calls[k].row = n}) <= 1
          /\ n \in FailedRows => i >= n
    /\ Cardinality(ServiceCalls) <= Len(rows)
    /\ Cardinality({k \in DOMAIN logged : logged[k].ev = "Drafting"}) = i

\* both rows failed in generation mode and the run ended with two requests
C18_Witness ==
    /\ pc = "done"
    /\ Len(rows) = 2
    /\ FailedRows = {1, 2}
    /\ calls = <<Call("_call_openai", 1), Call("_call_openai", 2)>>

\* C19: no step changes the input rows or a record already in the output;
\* a step appends at most one record, and the output never has more records
\* than the input has rows.
C19_RowsAndEarlierDraftsKept ==
    /\ [](Len(drafts) <= Len(rows))
    /\ [][ /\ rows' = rows
           /\ Len(drafts') \in {Len(drafts), Len(drafts) + 1}
           /\ SubSeq(drafts', 1, Len(drafts)) = drafts ]_vars

\* a second record was appended after a first one
C19_Witness ==
    /\ Len(rows) = 2
    /\ Len(drafts) = 2
    /\ CompanyFields(drafts[1]) = rows[1]
    /\ CompanyFields(drafts[2]) = rows[2]
    /\ rows[1] # rows[2]

\* the template file of the row's tier has text
HasTemplateText(row) ==
    LET key == template_key(get(row, "tier"))
    IN  key \in DOMAIN templates /\ templates[key] # <<>>

\* C20: every row takes one of the two paths: template mode exactly when the
\* file of the row's sanitized tier has text, generation mode otherwise; a
\* template row makes no generation request and a generation row makes no
\* call of fill_template.
C20_ExactlyOneMode ==
    \A n \in 1..i :
        /\ (n \in TemplateRows) # (n \in GenerationRows)
        /\ n \in TemplateRows <=> HasTemplateText(rows[n])
        /\ n \in TemplateRows =>
              (TimesCalled(Call("fill_template", n)) = 1
                  /\ TimesCalled(Call("_call_openai", n)) = 0)
        /\ n \in GenerationRows =>
              (TimesCalled(Call("_call_openai", n)) = 1
                  /\ TimesCalled(Call("fill_template", n)) = 0
                  /\ TimesCalled(Call("_gpt_refine_body", n)) = 0)

\* one batch with a row of each mode: the tier of the first has a file with
\* text, the file of the second is empty
C20_Witness ==
    /\ i = 2
    /\ TemplateRows = {1}
    /\ GenerationRows = {2}
    /\ STANDARD \in DOMAIN templates
    /\ calls = <<Call("fill_template", 1), Call("_call_openai", 2)>>

\* the list of scoring reasons a row carries in its solid_reasons cell
ReasonsCarried(row) ==
    IF get(row, "solid_reasons") = REASONS_CELL THEN <<FAST \o <<" ">>>> ELSE <<>>

\* the text the j-th draft was filled from holds the custom reference token
UsesCustomReference(n) ==
    HasMatch(load_template(resolved_tier(rows[n]), templates), PH_custom_reference)

\* the body of row n when the token is replaced by `reference`
BodyWithReference(n, reference) ==
    _extract_subject_from_body(
        clean_filled(replace(load_template(resolved_tier(rows[n]), templates),
                             PH_custom_reference, reference)))[2]

\* C21 as claimed: in a template draft of main, made without refinement, the
\* custom reference token is replaced by the first scoring reason of the row,
\* trimmed, when the row carries reasons, and by nothing only when the row
\* carries none.
C21_CustomReferenceIsFirstReason ==
    \A j \in 1..Len(drafts) :
        LET n == RowOfDraft(j)
        IN  (n \in TemplateRows /\ UsesCustomReference(n) /\ ~USE_GPT_REFINEMENT) =>
                drafts[j]["body"] =
                    BodyWithReference(n, IF ReasonsCarried(rows[n]) # <<>>
                                         THEN strip(ReasonsCarried(rows[n])[1])
                                         ELSE <<>>)

-----------------------------------------------------------------------------
(* main at rest, for the specifications of single functions *)

MainIdle ==
    /\ env = EnvUnread
    /\ templates = <<>>
    /\ profile \in {p \in ProfileChoices : p.name = <<>>}
    /\ USE_GPT_REFINEMENT = FALSE
    /\ rows = <<>>
    /\ pc = "idle"
    /\ i = 0
    /\ drafts = <<>>
    /\ written = <<>>
    /\ logged = <<>>
    /\ calls = <<>>

-----------------------------------------------------------------------------
(* Specification of load_template's key *)

TierChars == {" ", "U", "l", "!", "_", "7"}

TierExamples == {<<"U","l","t","r","a","!","!">>, <<" ","S","k","i","p",NL>>,
                 STANDARD, <<"\t"," ">>}

TierInputs == {None} \cup StringsUpTo(TierChars, MaxTierLen) \cup TierExamples

InitTier == MainIdle /\ WebIdle /\ arg \in TierInputs /\ ret = NoCall

CallLoadTemplate ==
    /\ ret = NoCall
    /\ ret' = template_key(arg)
    /\ UNCHANGED <<arg, mainVars, webVars>>

NextTier == CallLoadTemplate

SpecTier == InitTier /\ [][NextTier]_vars

Sanitized(t) ==
    IF t = None THEN <<>> ELSE SelectSeq(lower(strip(t)), LAMBDA c : c \in KeyChars)

\* C9: the lookup key is the tier trimmed, lowercased and restricted to
\* [a-z0-9_]; None, empty, blank or empty-after-sanitization gives "standard";
\* the key is never empty and holds no character outside [a-z0-9_].
C9_TierKey ==
    ret # NoCall =>
        /\ ret # <<>>
        /\ \A k \in 1..Len(ret) : ret[k] \in KeyChars
        /\ (arg = None \/ Sanitized(arg) = <<>>) => ret = STANDARD
        /\ (arg # None /\ Sanitized(arg) # <<>>) => ret = Sanitized(arg)
        /\ arg = <<"U","l","t","r","a","!","!">> => ret = ULTRA

C9_Witness ==
    /\ arg = <<"U","!"," ">>
    /\ ret = <<"u">>

-----------------------------------------------------------------------------
(* Specification of _gpt_refine_body *)

Rep(c, n) == [k \in 1..n |-> c]

RefineBodies ==
    StringsUpTo({"a", " "}, MaxBodyLen)
        \cup {Rep("a", 10), Rep("a", MAX_FILLED_LENGTH)}

RefineContents ==
    {None} \cup StringsUpTo({"b", " ", NL}, MaxReplyLen)
        \cup {Rep("b", n) : n \in {11, 12, (11 * MAX_FILLED_LENGTH) \div 10,
                                   (11 * MAX_FILLED_LENGTH) \div 10 + 1}}

RefineInputs ==
    [body : RefineBodies, api_key_set : BOOLEAN,
     reply : {Reply("raise", None)} \cup {Reply("content", c) : c \in RefineContents}]

InitRefine == MainIdle /\ WebIdle /\ arg \in RefineInputs /\ ret = NoCall

CallRefine ==
    /\ ret = NoCall
    /\ ret' = _gpt_refine_body(arg.body, arg.api_key_set, arg.reply)
    /\ UNCHANGED <<arg, mainVars, webVars>>

NextRefine == CallRefine

SpecRefine == InitRefine /\ [][NextRefine]_vars

NothingRefined(reply) ==
    reply.kind = "raise" \/ reply.content = None \/ IsBlank(reply.content)

\* C5 as claimed: when the request raises, or the reply has no content, an
\* empty content or only whitespace, the result is the body as given; a body
\* that is not blank never comes back empty or blank.
C5_RefineNeverBlanks ==
    ret # NoCall =>
        /\ NothingRefined(arg.reply) => ret = arg.body
        /\ ~IsBlank(arg.body) => ~IsBlank(ret)

\* C6: a refined text longer than 110% of the body gives the body back as it
\* was, and the refined text is returned only when it is at most 110% of it.
C6_TenPercentGate ==
    (ret # NoCall /\ arg.reply.kind = "content" /\ arg.reply.content # None) =>
        LET refined == strip(arg.reply.content)
        IN  /\ 10 * Len(refined) > 11 * Len(arg.body) => ret = arg.body
            /\ ret = refined => 10 * Len(refined) <= 11 * Len(arg.body)

\* a body of 10 characters and a refined text of 12
C6_Witness ==
    /\ ret # NoCall
    /\ arg.api_key_set
    /\ arg.body = Rep("a", 10)
    /\ arg.reply = Reply("content", Rep("b", 12))
    /\ ret = arg.body

-----------------------------------------------------------------------------
(* Specification of fill_template *)

Placeholders ==
    {PH_company_name, PH_company_description, PH_jobs_url, PH_location,
     PH_candidate_name, PH_candidate_headline, PH_candidate_core_skills,
     PH_candidate_quant_projects, PH_candidate_metrics, PH_custom_reference}

TemplatePieces ==
    { <<"{","{">>, <<"}","}">>, <<"c","o","m","p","a","n","y","_","n","a","m","e">>,
      PH_jobs_url, PH_location, <<"a"," ">>, <<NL>> }

\* a text with a space where the cut falls
LONG_WITH_SPACE_AT_CUT == Rep("x", MAX_FILLED_LENGTH - 1) \o <<" ", "y", "y">>

\* lines with trailing blanks and a run of three blank lines
TEMPLATE_BLANK_RUN ==
    <<" ", "a", " ", "\t", NL, " ", NL, NL, "\t", NL, " ", "b", NL, NL, "c", NL>>

FillExamples == {LONG_WITH_SPACE_AT_CUT, LongText, TEMPLATE_BLANK_RUN, TEMPLATE_LONG}

FillTemplates ==
    {join(<<>>, ps) : ps \in SeqsUpTo(TemplatePieces, MaxPieces)} \cup FillExamples

\* a row with none of the fields, and one with a name, an empty jobs_url and
\* no location
FillCompanies ==
    { <<>>,
      [company_name |-> <<" ">> \o ACME, jobs_url |-> <<>>, location |-> None] }

FillInputs ==
    [template : FillTemplates, company : FillCompanies,
     profile : {p \in ProfileChoices : p.name = AL},
     score : {[solid_reasons |-> PyList(<<>>)]}]

InitFill == MainIdle /\ WebIdle /\ arg \in FillInputs /\ ret = NoCall

CallFill ==
    /\ ret = NoCall
    /\ ret' = fill_template(arg.template, arg.company, arg.profile, arg.score)
    /\ UNCHANGED <<arg, mainVars, webVars>>

NextFill == CallFill

SpecFill == InitFill /\ [][NextFill]_vars

\* C10 as claimed: whatever the template and the data, the output holds none
\* of the ten placeholder tokens.
C10_NoPlaceholderLeft ==
    ret # NoCall => \A token \in Placeholders : ~HasMatch(ret, token)

HasNoToken(template) == \A token \in Placeholders : ~HasMatch(template, token)

\* The normalization as the documentation words it: every line right-trimmed,
\* a blank line dropped when the line before it is blank, the whole trimmed.
RightTrimmedLines(text) ==
    LET ls == splitlines(text) IN [k \in 1..Len(ls) |-> rstrip(ls[k])]

KeptLines(ls) == {k \in 1..Len(ls) : ~(ls[k] = <<>> /\ k > 1 /\ ls[k - 1] = <<>>)}

Collapsed(ls) == [j \in 1..Cardinality(KeptLines(ls)) |-> ls[NthOf(KeptLines(ls), j)]]

Normalized(text) == strip(join(<<NL>>, Collapsed(RightTrimmedLines(text))))

\* C11 as claimed: for a template with none of the tokens the output is the
\* template with its lines right-trimmed, runs of blank lines collapsed, the
\* whole trimmed and then cut to MAX_FILLED_LENGTH, and nothing else, whatever
\* the company and the profile are.
C11_NormalizedAndCutOnly ==
    (ret # NoCall /\ HasNoToken(arg.template)) =>
        ret = Prefix(Normalized(arg.template), MAX_FILLED_LENGTH)

\* C11 as amended: for a template with none of the tokens the output is the
\* normalized template, cut to MAX_FILLED_LENGTH when it is longer and then
\* right-trimmed once more; the company and the profile have no part in it.
C11_NormalizedCutAndRightTrimmed ==
    (ret # NoCall /\ HasNoToken(arg.template)) =>
        LET norm == Normalized(arg.template)
        IN  ret = IF Len(norm) > MAX_FILLED_LENGTH
                  THEN rstrip(Prefix(norm, MAX_FILLED_LENGTH))
                  ELSE norm

\* a template without tokens, filled for a company with a name: the trailing
\* blanks and two of the three blank lines are gone
C11_Witness ==
    /\ ret # NoCall
    /\ arg.template = TEMPLATE_BLANK_RUN
    /\ HasNoToken(arg.template)
    /\ "company_name" \in DOMAIN arg.company
    /\ ret = <<"a", NL, NL, " ", "b", NL, NL, "c">>

FilledUncut == Normalized(ReplaceAll(arg.template,
                                     replacements(arg.company, arg.profile, arg.score)))

\* C12: the output is never longer than MAX_FILLED_LENGTH; a normalized text
\* of at most that length is returned in full, and a longer one gives a
\* prefix of itself, with no marker at the end.
C12_CutIsSilentPrefix ==
    ret # NoCall =>
        /\ Len(ret) <= MAX_FILLED_LENGTH
        /\ Len(FilledUncut) <= MAX_FILLED_LENGTH => ret = FilledUncut
        /\ Len(FilledUncut) > MAX_FILLED_LENGTH =>
              /\ ret = Prefix(FilledUncut, Len(ret))
              /\ ret # FilledUncut

\* a text of MAX_FILLED_LENGTH + 1 characters was cut to MAX_FILLED_LENGTH
C12_Witness ==
    /\ ret # NoCall
    /\ arg.template = LongText
    /\ Len(FilledUncut) = MAX_FILLED_LENGTH + 1
    /\ Len(ret) = MAX_FILLED_LENGTH

-----------------------------------------------------------------------------
(* Specification of _extract_subject_from_body *)

ExtractPieces ==
    { <<"S","u","b","j","e","c","t",":">>, <<" ","s","u","b","j","e","c","t",":"," ">>,
      <<"\t","S","U","B","J","E","C","T",":","A"," ">>, <<"S","u","b","j","e","c","t">>,
      <<"b">>, <<" ">>, <<NL>> }

ExtractInputs == {join(<<>>, ps) : ps \in SeqsUpTo(ExtractPieces, MaxPieces)}

InitExtract == MainIdle /\ WebIdle /\ arg \in ExtractInputs /\ ret = NoCall

CallExtract ==
    /\ ret = NoCall
    /\ ret' = _extract_subject_from_body(arg)
    /\ UNCHANGED <<arg, mainVars, webVars>>

NextExtract == CallExtract

SpecExtract == InitExtract /\ [][NextExtract]_vars

\* the line, trimmed and lowercased, starts with "subject:"
StartsWithMarker(line) == startswith(lower(strip(line)), SUBJECT_MARKER)

MarkerLines(text) ==
    {k \in 1..Len(splitlines(text)) : StartsWithMarker(splitlines(text)[k])}

FirstMarkerLine(text) ==
    CHOOSE k \in MarkerLines(text) : \A j \in MarkerLines(text) : k <= j

C14_NoSubjectLineKeepsText ==
    (ret # NoCall /\ MarkerLines(arg) = {}) => ret = << <<>>, arg >>

\* a text without a marker line that trimming or joining would change
C14_Witness ==
    /\ arg = <<" ", "S","u","b","j","e","c","t", NL, NL>>
    /\ ret = << <<>>, arg >>

-----------------------------------------------------------------------------
(* Specification of _strip_json_block *)

StripPieces == {FENCE, JSON_TAG, <<"q">>, <<" ">>, <<NL>>}

StripInputs == {join(<<>>, ps) : ps \in SeqsUpTo(StripPieces, MaxPieces)}

InitStrip == MainIdle /\ WebIdle /\ arg \in StripInputs /\ ret = NoCall

CallStrip ==
    /\ ret = NoCall
    /\ ret' = _strip_json_block(arg)
    /\ UNCHANGED <<arg, mainVars, webVars>>

NextStrip == CallStrip

SpecStrip == InitStrip /\ [][NextStrip]_vars

\* C16 as claimed: stripping the fence of a text already stripped gives the
\* same text, for every input, nested and repeated fences and fences with a
\* language tag included.
C16_StripIsIdempotent ==
    ret # NoCall => _strip_json_block(ret) = ret

-----------------------------------------------------------------------------
(* outlook_web: /api/outlook/auth-url and /auth/outlook/callback.  The      *)
(* server of app.run answers every request in a thread of its own, so the   *)
(* statements of several handlers interleave.                              *)

MaxAuthUrls == 2

MaxCallbacks == 2

\* request.args.get(name) of an argument the request does not have
NoArg == "<None>"

\* the values secrets.token_urlsafe(32) gives: a value never given before
States == {"state1", "state2", "state3"}

AuthReply(status, state) == [status |-> status, state |-> state]

IssuedStates ==
    {auth_replies[k].state : k \in {j \in DOMAIN auth_replies : auth_replies[j].status = 200}}

\* lines 110-122
outlook_auth_url ==
    /\ Len(auth_replies) < MaxAuthUrls
    /\ IF ~credentials_set
       THEN /\ auth_replies' = Append(auth_replies, AuthReply(500, NoArg))
            /\ UNCHANGED _pending_states
       ELSE \E state \in States \ IssuedStates :
              /\ _pending_states' = _pending_states \cup {state}
              /\ auth_replies' = Append(auth_replies, AuthReply(200, state))
    /\ UNCHANGED <<credentials_set, handlers, exchanges, saved, arg, ret, mainVars>>

Handler(code, state, error, at) ==
    [code |-> code, state |-> state, error |-> error, at |-> at]

\* lines 131-134: where the handler goes after its two checks
after_checks(code, state, error, pending) ==
    IF error # NoArg THEN "error"
    ELSE IF code = NoArg \/ state \notin pending THEN "invalid_callback"
    ELSE "pop"

\* lines 128-134: a request arrives, its handler reads the arguments and
\* makes the checks
outlook_callback_check ==
    /\ Len(handlers) < MaxCallbacks
    /\ \E code \in {NoArg, "code"}, state \in States \cup {NoArg},
          error \in {NoArg, "access_denied"} :
          handlers' = Append(handlers,
                             Handler(code, state, error,
                                     after_checks(code, state, error, _pending_states)))
    /\ UNCHANGED <<credentials_set, _pending_states, auth_replies, exchanges, saved,
                   arg, ret, mainVars>>

\* line 135
outlook_callback_pop(r) ==
    /\ handlers[r].at = "pop"
    /\ _pending_states' = _pending_states \ {handlers[r].state}
    /\ handlers' = [handlers EXCEPT ![r].at = "exchange"]
    /\ UNCHANGED <<credentials_set, auth_replies, exchanges, saved, arg, ret, mainVars>>

\* what acquire_token_by_authorization_code may return: nothing, a dict with
\* an error, a dict with an access token
TokenResults == {"none", "error", "access_token"}

Exchange(r, state, result) == [handler |-> r, state |-> state, result |-> result]

\* lines 136-141
outlook_callback_exchange(r) ==
    /\ handlers[r].at = "exchange"
    /\ \E result \in TokenResults :
          /\ exchanges' = Append(exchanges, Exchange(r, handlers[r].state, result))
          /\ handlers' = [handlers EXCEPT ![r].at = IF result = "access_token"
                                                    THEN "save" ELSE "token_failed"]
    /\ UNCHANGED <<credentials_set, _pending_states, auth_replies, saved, arg, ret,
                   mainVars>>

\* lines 142-147
outlook_callback_save(r) ==
    /\ handlers[r].at = "save"
    /\ saved' = Append(saved, r)
    /\ handlers' = [handlers EXCEPT ![r].at = "connected"]
    /\ UNCHANGED <<credentials_set, _pending_states, auth_replies, exchanges, arg, ret,
                   mainVars>>

InitWeb ==
    /\ MainIdle
    /\ arg = None
    /\ ret = NoCall
    /\ credentials_set \in BOOLEAN
    /\ _pending_states = {}
    /\ auth_replies = <<>>
    /\ handlers = <<>>
    /\ exchanges = <<>>
    /\ saved = <<>>

NextWeb ==
    \/ outlook_auth_url
    \/ outlook_callback_check
    \/ \E r \in DOMAIN handlers : outlook_callback_pop(r)
    \/ \E r \in DOMAIN handlers : outlook_callback_exchange(r)
    \/ \E r \in DOMAIN handlers : outlook_callback_save(r)

SpecWeb == InitWeb /\ [][NextWeb]_vars

ExchangesFor(state) == {k \in DOMAIN exchanges : exchanges[k].state = state}

\* C22 as claimed: however the requests interleave, a token exchange is made
\* at most once for a state, never for a state that was not issued, and the
\* tokens are saved only by a handler whose exchange gave an access token.
C22_StateAuthorizesOneExchange ==
    /\ \A state \in States \cup {NoArg} : Cardinality(ExchangesFor(state)) <= 1
    /\ \A k \in DOMAIN exchanges : exchanges[k].state \in IssuedStates
    /\ \A k \in DOMAIN saved :
          \E e \in DOMAIN exchanges :
              exchanges[e].handler = saved[k] /\ exchanges[e].result = "access_token"

====
